---- MODULE Spec2Model ----
(***************************************************************************)
(* Model of wrn2810_cifar10_rua.py: the golden-section search gss over the *)
(* memoized objective evaluate_result, the driver fastestimator_run, and   *)
(* the Posterize transform's bits_to_keep computation.                     *)
(*                                                                         *)
(* The float h of gss is always (b - a) * invphi^n for the entry values of *)
(* a and b and the number n of shrink steps taken, so it is kept as the    *)
(* pair [base, pow]; int(a + invphi^k * base) is computed exactly through  *)
(* invphi^k = (-1)^k * (Lucas(k) - Fib(k) * sqrt(5)) / 2.                  *)
(***************************************************************************)
EXTENDS Integers, Sequences, FiniteSets

\* ---- bounds of the model ----
NegA == 2
MaxA == 2
NegB == 1
MaxB == 7
MaxTrial == 5
MaxScore == 3
MaxLevel == 30
DrawDen == 60

\* ---- program constants ----
DriverA == 1
DriverB == 30
DriverTrials == 7
LevelScale == 30
BitLossScale == 7
ChannelBits == 8

VARIABLES args, objective, a, b, h, c, d, yc, yd, results, i, pc, ret,
          raised, calls, rewrites,
          level, bit_loss_limit, draw, bits_to_keep

gssVars == <<args, objective, a, b, h, c, d, yc, yd, results, i, pc, ret,
             raised, calls, rewrites>>
postVars == <<level, bit_loss_limit, draw, bits_to_keep>>
vars == <<args, objective, a, b, h, c, d, yc, yd, results, i, pc, ret,
          raised, calls, rewrites, level, bit_loss_limit, draw, bits_to_keep>>

\* ---- exact arithmetic for int(a + invphi^k * h) ----
RECURSIVE Fib(_)
Fib(k) == IF k = 0 THEN 0 ELSE IF k = 1 THEN 1 ELSE Fib(k - 1) + Fib(k - 2)

Lucas(k) == 2 * Fib(k + 1) - Fib(k)

RECURSIVE SqrtSearch(_, _, _)
SqrtSearch(x, lo, hi) ==
    IF lo = hi THEN lo
    ELSE LET mid == (lo + hi + 1) \div 2
         IN  IF mid * mid <= x THEN SqrtSearch(x, mid, hi)
             ELSE SqrtSearch(x, lo, mid - 1)

\* floor(sqrt(x)) for x >= 0
ISqrt(x) == SqrtSearch(x, 0, 46340)

\* floor((P + Q * sqrt(5)) / 2)
FloorHalfSurd(P, Q) ==
    IF Q = 0 THEN P \div 2
    ELSE IF Q > 0 THEN (P + ISqrt(5 * Q * Q)) \div 2
    ELSE (P - ISqrt(5 * Q * Q) - 1) \div 2

\* Python int() of (P + Q * sqrt(5)) / 2: truncation toward zero
TruncHalfSurd(P, Q) ==
    LET fl == FloorHalfSurd(P, Q)
    IN  IF Q = 0 \/ fl >= 0 THEN fl ELSE fl + 1

Sign(k) == IF k % 2 = 0 THEN 1 ELSE -1

\* int(x + invphi^k * base)
IntGolden(x, base, k) ==
    TruncHalfSurd(2 * x + base * Sign(k) * Lucas(k), 0 - base * Sign(k) * Fib(k))

\* h = invphi * h
MulInvphiKeep(hh) == hh
MulInvphi(hh) == [hh EXCEPT !.pow = @ + 1]

\* int(a + invphi2 * h), invphi2 = invphi^2
PointC(x, hh) == IntGolden(x, hh.base, hh.pow + 2)

\* int(a + invphi * h)
PointD(x, hh) == IntGolden(x, hh.base, hh.pow + 1)

\* ---- the dict results, in insertion order ----
DictKeys(dict) == {dict[j].key : j \in 1..Len(dict)}

DictHas(dict, k) == \E j \in 1..Len(dict) : dict[j].key = k

DictGet(dict, k) == dict[CHOOSE j \in 1..Len(dict) : dict[j].key = k].val

DictSet(dict, k, v) ==
    IF DictHas(dict, k)
    THEN [j \in 1..Len(dict) |->
            IF dict[j].key = k THEN [key |-> k, val |-> v] ELSE dict[j]]
    ELSE Append(dict, [key |-> k, val |-> v])

MaxValue(dict) ==
    CHOOSE m \in {dict[j].val : j \in 1..Len(dict)} :
        \A j \in 1..Len(dict) : dict[j].val <= m

IsMaxEntry(dict, e) == e.val = MaxValue(dict)

\* [key for key in results.keys() if results[key] == max(results.values())]
MaxValueKeys(dict) == SelectSeq(dict, LAMBDA e : IsMaxEntry(dict, e))

PickLast(keys) == keys[Len(keys)].key
PickFirst(keys) == keys[1].key

\* ---- the objective ----
Scores == 0..MaxScore

StubScore(m, lv) == 0 - (lv - m) * (lv - m)

\* outcomes of one call evaluate_result(level): a score or an exception
EvalOutcomes(lv) ==
    IF objective.kind = "stub"
    THEN {[ok |-> TRUE, score |-> StubScore(objective.peak, lv)]}
    ELSE {[ok |-> TRUE, score |-> s] : s \in Scores}
            \cup {[ok |-> FALSE, score |-> 0]}

\* where control goes when evaluate_result raises at position at
AfterRaiseRetry(at) == at
AfterRaise(at) == "failed"

NoResult == [level |-> 0, score |-> 0]

\* range(total_trial - 2)
LoopRangeFull(total_trial) == total_trial
LoopRange(total_trial) == total_trial - 2

\* ---- gss ----
DirectCalls ==
    {[a |-> x, b |-> y, total_trial |-> t] :
        x \in (0 - NegA)..MaxA, y \in (0 - NegB)..MaxB, t \in 0..MaxTrial}

DriverCall == [a |-> DriverA, b |-> DriverB, total_trial |-> DriverTrials]

Objectives ==
    {[kind |-> "free", peak |-> 0]}
        \cup {[kind |-> "stub", peak |-> m] : m \in DriverA..DriverB}

PostIdle ==
    /\ level = 0
    /\ bit_loss_limit = 0
    /\ draw = 0
    /\ bits_to_keep = ChannelBits

Init ==
    /\ args \in DirectCalls \cup {DriverCall}
    /\ objective \in Objectives
    /\ a = args.a
    /\ b = args.b
    /\ h = [base |-> 0, pow |-> 0]
    /\ c = 0
    /\ d = 0
    /\ yc = 0
    /\ yd = 0
    /\ results = <<>>
    /\ i = 0
    /\ pc = "entry"
    /\ ret = NoResult
    /\ raised = FALSE
    /\ calls = <<>>
    /\ rewrites = 0
    /\ PostIdle

\* lines 358-363
GssBegin ==
    /\ pc = "entry"
    /\ LET hh == [base |-> b - a, pow |-> 0]
       IN  /\ h' = hh
           /\ c' = PointC(a, hh)
           /\ d' = PointD(a, hh)
    /\ results' = <<>>
    /\ pc' = "eval_c"
    /\ UNCHANGED <<args, objective, a, b, yc, yd, i, ret, raised, calls, rewrites>>
    /\ UNCHANGED postVars

Rewritten(dict, k) == IF DictHas(dict, k) THEN 1 ELSE 0

\* lines 364-365
EvalInitC ==
    /\ pc = "eval_c"
    /\ calls' = Append(calls, c)
    /\ \E o \in EvalOutcomes(c) :
          IF o.ok
          THEN /\ yc' = o.score
               /\ results' = DictSet(results, c, o.score)
               /\ rewrites' = rewrites + Rewritten(results, c)
               /\ pc' = "eval_d"
               /\ UNCHANGED raised
          ELSE /\ raised' = TRUE
               /\ pc' = AfterRaise("eval_c")
               /\ UNCHANGED <<yc, results, rewrites>>
    /\ UNCHANGED <<args, objective, a, b, h, c, d, yd, i, ret>>
    /\ UNCHANGED postVars

\* lines 366-367
EvalInitD ==
    /\ pc = "eval_d"
    /\ calls' = Append(calls, d)
    /\ \E o \in EvalOutcomes(d) :
          IF o.ok
          THEN /\ yd' = o.score
               /\ results' = DictSet(results, d, o.score)
               /\ rewrites' = rewrites + Rewritten(results, d)
               /\ pc' = "loop"
               /\ UNCHANGED raised
          ELSE /\ raised' = TRUE
               /\ pc' = AfterRaise("eval_d")
               /\ UNCHANGED <<yd, results, rewrites>>
    /\ UNCHANGED <<args, objective, a, b, h, c, d, yc, i, ret>>
    /\ UNCHANGED postVars

\* lines 368-379: one loop iteration taking the branch yc > yd
ShrinkRight ==
    /\ pc = "loop"
    /\ i < LoopRange(args.total_trial)
    /\ yc > yd
    /\ b' = d
    /\ d' = c
    /\ yd' = yc
    /\ h' = MulInvphi(h)
    /\ c' = PointC(a, h')
    /\ IF DictHas(results, c')
       THEN /\ yc' = DictGet(results, c')
            /\ i' = i + 1
            /\ UNCHANGED <<results, calls, rewrites, raised, pc>>
       ELSE /\ calls' = Append(calls, c')
            /\ \E o \in EvalOutcomes(c') :
                  IF o.ok
                  THEN /\ yc' = o.score
                       /\ results' = DictSet(results, c', o.score)
                       /\ rewrites' = rewrites + Rewritten(results, c')
                       /\ i' = i + 1
                       /\ UNCHANGED <<raised, pc>>
                  ELSE /\ raised' = TRUE
                       /\ pc' = AfterRaise("loop")
                       /\ UNCHANGED <<yc, results, rewrites, i>>
    /\ UNCHANGED <<args, objective, a, ret>>
    /\ UNCHANGED postVars

\* lines 368-369, 380-390: one loop iteration taking the else branch
ShrinkLeft ==
    /\ pc = "loop"
    /\ i < LoopRange(args.total_trial)
    /\ ~(yc > yd)
    /\ a' = c
    /\ c' = d
    /\ yc' = yd
    /\ h' = MulInvphi(h)
    /\ d' = PointD(a', h')
    /\ IF DictHas(results, d')
       THEN /\ yd' = DictGet(results, d')
            /\ i' = i + 1
            /\ UNCHANGED <<results, calls, rewrites, raised, pc>>
       ELSE /\ calls' = Append(calls, d')
            /\ \E o \in EvalOutcomes(d') :
                  IF o.ok
                  THEN /\ yd' = o.score
                       /\ results' = DictSet(results, d', o.score)
                       /\ rewrites' = rewrites + Rewritten(results, d')
                       /\ i' = i + 1
                       /\ UNCHANGED <<raised, pc>>
                  ELSE /\ raised' = TRUE
                       /\ pc' = AfterRaise("loop")
                       /\ UNCHANGED <<yd, results, rewrites, i>>
    /\ UNCHANGED <<args, objective, b, ret>>
    /\ UNCHANGED postVars

\* lines 391-392
Return ==
    /\ pc = "loop"
    /\ ~(i < LoopRange(args.total_trial))
    /\ LET max_value_keys == MaxValueKeys(results)
           key == PickFirst(max_value_keys)
       IN  ret' = [level |-> key, score |-> DictGet(results, key)]
    /\ pc' = "done"
    /\ UNCHANGED <<args, objective, a, b, h, c, d, yc, yd, results, i,
                   raised, calls, rewrites>>
    /\ UNCHANGED postVars

Next ==
    \/ GssBegin
    \/ EvalInitC
    \/ EvalInitD
    \/ ShrinkRight
    \/ ShrinkLeft
    \/ Return

Spec == Init /\ [][Next]_vars

\* ---- Posterize ----
\* level / 30 * 7, kept as the numerator over LevelScale
BitLossLimitUnscaled(lv) == lv * BitLossScale * LevelScale
BitLossLimit(lv) == lv * BitLossScale

\* Python round() of n / den, den > 0, n >= 0: ties go to the even integer
Round(n, den) ==
    LET q == n \div den
        r == n % den
    IN  IF 2 * r < den THEN q
        ELSE IF 2 * r > den THEN q + 1
        ELSE IF q % 2 = 0 THEN q ELSE q + 1

\* the draws random.uniform(0, limit) on the grid of DrawDen-ths
UniformDraws(limit) == 0..((limit * DrawDen) \div LevelScale)

GssIdle ==
    /\ args = DriverCall
    /\ objective = [kind |-> "free", peak |-> 0]
    /\ a = args.a
    /\ b = args.b
    /\ h = [base |-> 0, pow |-> 0]
    /\ c = 0
    /\ d = 0
    /\ yc = 0
    /\ yd = 0
    /\ results = <<>>
    /\ i = 0
    /\ pc = "idle"
    /\ ret = NoResult
    /\ raised = FALSE
    /\ calls = <<>>
    /\ rewrites = 0

\* lines 143-145: Posterize(level)
InitPosterize ==
    /\ GssIdle
    /\ level \in 0..MaxLevel
    /\ bit_loss_limit = BitLossLimit(level)
    /\ draw = 0
    /\ bits_to_keep = ChannelBits

\* lines 147-151
Forward ==
    /\ \E u \in UniformDraws(bit_loss_limit) :
          /\ draw' = u
          /\ bits_to_keep' = ChannelBits - Round(u, DrawDen)
    /\ UNCHANGED <<level, bit_loss_limit>>
    /\ UNCHANGED gssVars

NextPosterize == Forward

SpecPosterize == InitPosterize /\ [][NextPosterize]_vars

\* ---- claims ----
ValidCall == args.a < args.b /\ args.total_trial >= 2

IsDriverCall == args = DriverCall

FirstCall(k) ==
    CHOOSE j \in 1..Len(calls) :
        calls[j] = k /\ \A m \in 1..(j - 1) : calls[m] # k

\* C1: in a run of gss with a < b and total_trial >= 2 the objective is never
\* invoked twice with the same level and no stored memo entry is written again.
C1_NoRepeatedEvaluation ==
    ValidCall =>
        /\ \A j, k \in 1..Len(calls) : j # k => calls[j] # calls[k]
        /\ rewrites = 0

\* C2 (as stated): when gss returns from a run with a < b, total_trial = T >= 2
\* and no failed evaluation, the objective has been invoked exactly T times.
C2_ExactlyTEvaluations ==
    (pc = "done" /\ ValidCall) => Len(calls) = args.total_trial

\* number of steps gss still has to take, at most
C2_Rank ==
    LET left == IF args.total_trial - 2 > i THEN args.total_trial - 2 - i ELSE 0
    IN  CASE pc = "entry" -> left + 4
          [] pc = "eval_c" -> left + 3
          [] pc = "eval_d" -> left + 2
          [] pc = "loop" -> left + 1
          [] OTHER -> 0

\* C2 (amended): every step of gss lowers the non-negative C2_Rank, so every
\* run ends, and when gss returns from a run with a < b and total_trial = T >= 2
\* it has made exactly T - 2 loop iterations and invoked the objective at
\* least 2 and at most T times.
C2_BudgetBound ==
    [][/\ C2_Rank' < C2_Rank
       /\ C2_Rank' >= 0
       /\ (pc' = "done" /\ ValidCall) =>
             /\ i' = args.total_trial - 2
             /\ Len(calls') >= 2
             /\ Len(calls') <= args.total_trial]_vars

C2_Witness ==
    /\ pc = "done"
    /\ ValidCall
    /\ ~raised
    /\ i = args.total_trial - 2
    /\ i >= 2
    /\ Len(calls) < args.total_trial

\* C3: the returned score is the maximum memoized score and the memoized score
\* of the returned level, and the returned level is the earliest evaluated
\* level among those with the maximum score.
C3_ReturnsFirstMaximum ==
    pc = "done" =>
        /\ DictHas(results, ret.level)
        /\ ret.score = DictGet(results, ret.level)
        /\ \A k \in DictKeys(results) : DictGet(results, k) <= ret.score
        /\ \A k \in DictKeys(results) :
              DictGet(results, k) = ret.score =>
                  FirstCall(ret.level) <= FirstCall(k)

C3_Witness ==
    /\ pc = "done"
    /\ \E k \in DictKeys(results) :
          /\ k < ret.level
          /\ DictGet(results, k) = ret.score
          /\ FirstCall(ret.level) < FirstCall(k)

\* C4: gss called with a >= b or total_trial < 2 never invokes the objective
\* and never returns a level.
C4_ConfigErrorSurfaced ==
    ~ValidCall => (calls = <<>> /\ pc # "done")

\* C5: once an evaluation has failed, no further evaluation is started and
\* gss returns no result.
C5_FailureAborts ==
    [][/\ raised => (calls' = calls /\ raised')
       /\ raised' => (pc' # "done" /\ ret' = NoResult)]_vars

C5_Witness ==
    /\ raised
    /\ pc = "failed"
    /\ i >= 1
    /\ Len(calls) >= 3

\* C6: with the stub objective f(L) = -(L - m)^2, m in 1..30, the driver call
\* gss(1, 30, 7) returns m, m - 1 or m + 1.
C6_StubConverges ==
    (pc = "done" /\ IsDriverCall /\ objective.kind = "stub") =>
        /\ ret.level >= objective.peak - 1
        /\ ret.level <= objective.peak + 1

\* C7: for 1 <= a < b <= 30 every level passed to the objective and the
\* returned level lie in the caller's closed interval [a, b].
C7_LevelsInsideInterval ==
    (1 <= args.a /\ args.a < args.b /\ args.b <= 30) =>
        /\ \A j \in 1..Len(calls) : args.a <= calls[j] /\ calls[j] <= args.b
        /\ pc = "done" => (args.a <= ret.level /\ ret.level <= args.b)

C7_Witness ==
    /\ pc = "done"
    /\ 1 <= args.a
    /\ args.a < args.b
    /\ args.total_trial >= 2
    /\ a > args.a
    /\ b < args.b
    /\ i >= 3

\* C8: Posterize's bits_to_keep is an integer in [0, 8] for every level in
\* [0, 30] and every draw.
C8_BitsToKeepInRange == bits_to_keep \in 0..8

C8_Witness ==
    /\ pc = "idle"
    /\ level = 30
    /\ draw = (bit_loss_limit * DrawDen) \div LevelScale
    /\ bits_to_keep = 1

\* C9: in the driver call gss(1, 30, 7), after the initial evaluations and
\* after every loop iteration, a <= c <= d <= b.
C9_BracketOrdered ==
    (IsDriverCall /\ pc \in {"loop", "done"}) =>
        (a <= c /\ c <= d /\ d <= b)

\* C10: after the initial evaluations and after every loop iteration the
\* cached scores agree with the memo: yc = results[c] and yd = results[d].
C10_CacheConsistent ==
    (ValidCall /\ pc \in {"loop", "done"}) =>
        /\ DictHas(results, c) /\ yc = DictGet(results, c)
        /\ DictHas(results, d) /\ yd = DictGet(results, d)

====
